---- MODULE Spec2Model ----
(***************************************************************************)
(* CelestialProjection (src/src/util/CelestialProjection.js): the five     *)
(* functions of the module, modelled as calls made by a client.            *)
(*                                                                         *)
(* JavaScript Numbers are IEEE 754 binary64 values.  They are modelled     *)
(* exactly: a Number is a sign, a 53-bit significand and an exponent, and  *)
(* + - * / and Math.floor round to nearest, ties to even, as the language  *)
(* requires.  Significands do not fit TLC's integers, so they are kept as  *)
(* little-endian sequences of base-2^15 digits (the N... operators).       *)
(* Exponents are unbounded: no value of the model comes near the overflow  *)
(* or subnormal range.  The sign of zero is not kept.                      *)
(***************************************************************************)
EXTENDS Integers, Sequences, FiniteSets, TLC

VARIABLES
    fn,        \* the function the client called last, "none" before its first call
    args,      \* the arguments of that call (before it: of the call to come)
    ret,       \* what the call produced: a returned value or a thrown error
    prevArgs,  \* the arguments of the call before, <<>> when there is none
    prevRet,   \* and what it produced
    ticks      \* how often the client's clock has advanced

vars == <<fn, args, ret, prevArgs, prevRet, ticks>>

\* The language computes the operands of an expression, and the statements
\* of a function, one after the other: InOrder(es) is the value of the last
\* of the expressions es, each computed once the ones before it are.
InOrder(es) == es[Len(es)]

(***************************************************************************)
(* Natural numbers of any size: <<d1, d2, ...>> is d1 + d2*2^15 + ...,     *)
(* without high zero digits; <<>> is 0.                                    *)
(***************************************************************************)
Base == 2^15

\* s without its high zero digits
NStrip(s) ==
    LET used == {i \in 1..Len(s) : s[i] # 0}
    IN  IF used = {} THEN <<>>
        ELSE SubSeq(s, 1, CHOOSE i \in used : \A j \in used : j <= i)

NDigit(a, i) == IF i <= Len(a) THEN a[i] ELSE 0

RECURSIVE NFromInt(_)
NFromInt(n) ==
    IF n = 0 THEN <<>> ELSE <<n % Base>> \o NFromInt(n \div Base)

RECURSIVE NToInt(_)
NToInt(a) ==
    IF a = <<>> THEN 0 ELSE Head(a) + Base * NToInt(Tail(a))

NRest(a) == IF a = <<>> THEN a ELSE Tail(a)

NLow(a) == IF a = <<>> THEN 0 ELSE Head(a)

RECURSIVE NAddC(_, _, _)
NAddC(a, b, c) ==
    IF a = <<>> /\ b = <<>>
    THEN (IF c = 0 THEN <<>> ELSE <<c>>)
    ELSE LET x == NLow(a) + NLow(b) + c
         IN  <<x % Base>> \o NAddC(NRest(a), NRest(b), x \div Base)

NAdd(a, b) == NAddC(a, b, 0)

RECURSIVE NSubC(_, _, _)
NSubC(a, b, c) ==
    IF a = <<>> THEN <<>>
    ELSE LET x == Head(a) - NLow(b) - c
         IN  <<x % Base>> \o NSubC(Tail(a), NRest(b), IF x < 0 THEN 1 ELSE 0)

\* a - b, for a >= b
NSub(a, b) == NStrip(NSubC(a, b, 0))

\* -1, 0 or 1 as a < b, a = b or a > b
NCmp(a, b) ==
    LET differ == {i \in 1..Len(a) : a[i] # NDigit(b, i)}
        top    == CHOOSE i \in differ : \A j \in differ : j <= i
    IN  IF Len(a) < Len(b) THEN -1
        ELSE IF Len(a) > Len(b) THEN 1
        ELSE IF differ = {} THEN 0
        ELSE IF a[top] < b[top] THEN -1 ELSE 1

RECURSIVE NMulC(_, _, _)
NMulC(a, k, c) ==
    IF a = <<>> THEN (IF c = 0 THEN <<>> ELSE NFromInt(c))
    ELSE LET x == Head(a) * k + c
         IN  <<x % Base>> \o NMulC(Tail(a), k, x \div Base)

\* a * k, for 0 <= k <= 2^15
NMulSmall(a, k) == IF k = 0 THEN <<>> ELSE NMulC(a, k, 0)

RECURSIVE NMul(_, _)
NMul(a, b) ==
    IF a = <<>> \/ b = <<>> THEN <<>>
    ELSE LET rest == NMul(a, Tail(b))
             low  == NMulSmall(a, Head(b))
         IN  InOrder(<<rest, low,
                       NAdd(low, IF rest = <<>> THEN rest ELSE <<0>> \o rest)>>)

RECURSIVE NDivAt(_, _, _, _)
NDivAt(a, k, i, r) ==
    IF i = 0 THEN [q |-> <<>>, r |-> r]
    ELSE LET x    == r * Base + a[i]
             rest == NDivAt(a, k, i - 1, x % k)
         IN  InOrder(<<x, rest, [q |-> Append(rest.q, x \div k), r |-> rest.r]>>)

\* quotient and remainder of a by k, for 1 <= k <= 2^15
NDivSmall(a, k) ==
    LET d == NDivAt(a, k, Len(a), 0)
    IN  [q |-> NStrip(d.q), r |-> d.r]

\* the number of bits of a digit
IntBits(n) == IF n = 0 THEN 0 ELSE CHOOSE b \in 1..15 : 2^(b - 1) <= n /\ n < 2^b

NBitLen(a) ==
    IF a = <<>> THEN 0 ELSE 15 * (Len(a) - 1) + IntBits(a[Len(a)])

NZeros(n) == [i \in 1..n |-> 0]

\* a * 2^n
NShl(a, n) ==
    LET p == 2^(n % 15)
    IN  IF a = <<>> THEN a
        ELSE NZeros(n \div 15) \o
             NStrip([i \in 1..(Len(a) + 1) |->
                        ((NDigit(a, i) * p) % Base)
                        + (IF i > 1 THEN (a[i - 1] * p) \div Base ELSE 0)])

\* floor(a / 2^n)
NShr(a, n) ==
    LET b == SubSeq(a, n \div 15 + 1, Len(a))
        p == 2^(n % 15)
    IN  IF n \div 15 >= Len(a) THEN <<>>
        ELSE NStrip([i \in 1..Len(b) |->
                        (b[i] \div p) + ((NDigit(b, i + 1) % p) * (Base \div p))])

\* whether bit n of a, counted from 0, is set
NBit(a, n) == (NDigit(a, n \div 15 + 1) \div 2^(n % 15)) % 2 = 1

\* whether one of the bits 0 .. n - 1 of a is set
NAnyBitBelow(a, n) ==
    \/ \E i \in 1..(n \div 15) : NDigit(a, i) # 0
    \/ NDigit(a, n \div 15 + 1) % 2^(n % 15) # 0

NOdd(a) == a # <<>> /\ a[1] % 2 = 1

(***************************************************************************)
(* Numbers.  A finite Number is (-1)^neg * m * 2^e with m = 0 (<<>>) or    *)
(* 2^52 <= m < 2^53, so equal values are equal records.                    *)
(***************************************************************************)
NaN == [type |-> "number", nan |-> TRUE, neg |-> FALSE, m |-> <<>>, e |-> 0]

Zero == [type |-> "number", nan |-> FALSE, neg |-> FALSE, m |-> <<>>, e |-> 0]

Num(neg, m, e) == [type |-> "number", nan |-> FALSE, neg |-> neg, m |-> m, e |-> e]

\* Call(f, a) is what f produces for the arguments a, where f is a function
\* of the module or an operation of the language on Numbers.  It is defined
\* below, after the functions it calls.
RECURSIVE Call(_, _)

\* (M + s) * 2^E, 0 < s < 1 when sticky and s = 0 otherwise, rounded to the
\* nearest Number, ties to even
RoundNearestEven(neg, M, E, sticky) ==
    IF M = <<>> THEN Zero
    ELSE LET L == NBitLen(M)
         IN  IF L <= 53 THEN Num(neg, NShl(M, 53 - L), E - (53 - L))
             ELSE LET s    == L - 53
                      q    == NShr(M, s)
                      up   == NBit(M, s - 1)
                              /\ (NAnyBitBelow(M, s - 1) \/ sticky \/ NOdd(q))
                      q1   == IF up THEN NAdd(q, <<1>>) ELSE q
                  IN  IF NBitLen(q1) > 53
                      THEN Num(neg, NShr(q1, 1), E + s + 1)
                      ELSE Num(neg, q1, E + s)

FRound(neg, M, E, sticky) == Call("round", <<neg, M, E, sticky>>)

\* the Number of an integer literal or an integer-valued field
IntegerValue(n) == FRound(n < 0, NFromInt(IF n < 0 THEN -n ELSE n), 0, FALSE)

FInt(n) == Call("integer", <<n>>)

RECURSIVE NDivTen(_, _, _)
NDivTen(a, k, sticky) ==
    IF k = 0 THEN [q |-> a, sticky |-> sticky]
    ELSE LET d == NDivSmall(a, 10)
         IN  IF d.r = 0 THEN NDivTen(d.q, k - 1, sticky)
             ELSE NDivTen(d.q, k - 1, TRUE)

\* the Number a decimal literal denotes: (hi * 10^7 + lo) / 10^k
DecimalValue(hi, lo, k) ==
    LET n == NAdd(NMul(NFromInt(hi), NFromInt(10000000)), NFromInt(lo))
        d == NDivTen(NShl(n, 105), k, FALSE)
    IN  FRound(FALSE, d.q, -105, d.sticky)

FDec(hi, lo, k) == Call("decimal", <<hi, lo, k>>)

FNeg(a) == IF a.nan \/ a.m = <<>> THEN a ELSE [a EXCEPT !.neg = ~a.neg]

\* a + b before rounding, as (-1)^neg * m * 2^e with m of any length
FSumExact(a, b) ==
    LET lo == IF a.e < b.e THEN a.e ELSE b.e
        A  == NShl(a.m, a.e - lo)
        B  == NShl(b.m, b.e - lo)
        c  == NCmp(A, B)
    IN  IF a.neg = b.neg THEN [neg |-> a.neg, m |-> NAdd(A, B), e |-> lo]
        ELSE IF c >= 0 THEN [neg |-> a.neg, m |-> NSub(A, B), e |-> lo]
        ELSE [neg |-> b.neg, m |-> NSub(B, A), e |-> lo]

\* a + b
Sum(a, b) ==
    IF a.nan \/ b.nan THEN NaN
    ELSE IF a.m = <<>> THEN b
    ELSE IF b.m = <<>> THEN a
    ELSE LET x == FSumExact(a, b)
         IN  InOrder(<<x, FRound(x.neg, x.m, x.e, FALSE)>>)

FAdd(a, b) == Call("+", <<a, b>>)

\* a - b
FSub(a, b) == FAdd(a, FNeg(b))

\* a * b
Product(a, b) ==
    IF a.nan \/ b.nan THEN NaN
    ELSE IF a.m = <<>> \/ b.m = <<>> THEN Zero
    ELSE LET m == NMul(a.m, b.m)
         IN  InOrder(<<m, FRound(a.neg # b.neg, m, a.e + b.e, FALSE)>>)

FMul(a, b) == Call("*", <<a, b>>)

RECURSIVE NDivFix(_, _, _)
NDivFix(r, d, q) ==
    LET p == NMulSmall(d, q)
    IN  IF NCmp(p, r) > 0 THEN NDivFix(r, d, q - 1)
        ELSE [q |-> q, r |-> NSub(r, p)]

\* one step of long division: quotient digit and remainder of r by d, for
\* r < d * 2^15 and d of four digits, the highest at least 2^14
NDivStep(r, d) ==
    LET est == (NDigit(r, 5) * Base + NDigit(r, 4)) \div d[4]
    IN  NDivFix(r, d, IF est >= Base THEN Base - 1 ELSE est)

RECURSIVE NDivDigits(_, _, _)
NDivDigits(r, d, n) ==
    IF n = 0 THEN [q |-> <<>>, r |-> r]
    ELSE LET hi   == NDivStep(IF r = <<>> THEN r ELSE <<0>> \o r, d)
             rest == NDivDigits(hi.r, d, n - 1)
         IN  InOrder(<<hi, rest, [q |-> Append(rest.q, hi.q), r |-> rest.r]>>)

\* a / b: long division of the significands, 60 bits of quotient after the
\* leading one, the remainder as the sticky bit
Quotient(a, b) ==
    IF a.nan \/ b.nan THEN NaN
    ELSE IF a.m = <<>> THEN Zero
    ELSE LET n   == NShl(a.m, 7)
             d   == NShl(b.m, 7)
             top == NCmp(n, d) >= 0
             r   == NDivDigits(IF top THEN NSub(n, d) ELSE n, d, 4)
             q   == NStrip(Append(r.q, IF top THEN 1 ELSE 0))
         IN  InOrder(<<n, d, r, q,
                       FRound(a.neg # b.neg, q, a.e - b.e - 60, r.r # <<>>)>>)

FDiv(a, b) == Call("/", <<a, b>>)

\* Math.floor
Floor(a) ==
    IF a.nan \/ a.e >= 0 THEN a
    ELSE LET q    == NShr(a.m, -a.e)
             frac == NShl(q, -a.e) # a.m
         IN  IF a.neg /\ frac THEN FRound(TRUE, NAdd(q, <<1>>), 0, FALSE)
             ELSE FRound(a.neg, q, 0, FALSE)

FFloor(a) == Call("Math.floor", <<a>>)

MathSin(x) == Call("Math.sin", <<x>>)

MathCos(x) == Call("Math.cos", <<x>>)

MathTan(x) == Call("Math.tan", <<x>>)

MathAsin(x) == Call("Math.asin", <<x>>)

MathAtan(x) == Call("Math.atan", <<x>>)

\* 2^20 times the sine of k degrees, rounded, for an integer k >= 0
SinDeg(k) == Call("sine table", <<k>>)

\* -1, 0, 1 as a < b, a = b, a > b (neither is NaN)
FCmp(a, b) ==
    LET mag == IF a.m = <<>> THEN (IF b.m = <<>> THEN 0 ELSE -1)
               ELSE IF b.m = <<>> THEN 1
               ELSE IF a.e < b.e THEN -1
               ELSE IF a.e > b.e THEN 1
               ELSE NCmp(a.m, b.m)
    IN  IF a.neg # b.neg THEN (IF a.neg THEN -1 ELSE 1)
        ELSE IF a.neg THEN -mag ELSE mag

\* the comparisons of the language: false when an operand is NaN
FLt(a, b) == ~a.nan /\ ~b.nan /\ FCmp(a, b) < 0

FLe(a, b) == ~a.nan /\ ~b.nan /\ FCmp(a, b) <= 0

FGe(a, b) == FLe(b, a)

(***************************************************************************)
(* The values a caller can pass, and what a call produces.                 *)
(***************************************************************************)
Null == [type |-> "null"]

Undefined == [type |-> "undefined"]

\* x == null
IsNullish(x) == x.type \in {"null", "undefined"}

\* !x
IsFalsy(x) ==
    \/ IsNullish(x)
    \/ x.type = "number" /\ (x.nan \/ x.m = <<>>)

\* the function returned value
Return(value) == [kind |-> "return", value |-> value]

\* throw new ArgumentError(Logger.logMessage(LEVEL_SEVERE, "CelestialProjection", f, msg))
Throw(f, msg) ==
    [kind |-> "throw", error |-> "ArgumentError", in |-> f, msg |-> msg]

(***************************************************************************)
(* Date.  A Date is a time value; the model keeps it as its UTC fields     *)
(* (month 0..11, as getUTCMonth returns it).  An invalid Date has the time *)
(* value NaN and every getter returns NaN.                                 *)
(***************************************************************************)
DateOf(y, mo, d, h, mi, s, ms) ==
    [type |-> "Date", valid |-> TRUE, year |-> y, month |-> mo, date |-> d,
     hours |-> h, minutes |-> mi, seconds |-> s, ms |-> ms]

InvalidDate ==
    [type |-> "Date", valid |-> FALSE, year |-> 0, month |-> 0, date |-> 0,
     hours |-> 0, minutes |-> 0, seconds |-> 0, ms |-> 0]

getUTCFullYear(d) == IF d.valid THEN FInt(d.year) ELSE NaN

getUTCMonth(d) == IF d.valid THEN FInt(d.month) ELSE NaN

getUTCDate(d) == IF d.valid THEN FInt(d.date) ELSE NaN

getUTCHours(d) == IF d.valid THEN FInt(d.hours) ELSE NaN

getUTCMinutes(d) == IF d.valid THEN FInt(d.minutes) ELSE NaN

getUTCSeconds(d) == IF d.valid THEN FInt(d.seconds) ELSE NaN

(***************************************************************************)
(* Math.sin, Math.cos, Math.tan, Math.asin and Math.atan.  The language    *)
(* leaves their results implementation-approximated.  The model computes   *)
(* them, with the operations on Numbers above, by linear interpolation in  *)
(* a table of the sines of whole degrees: within 0.00004 of the function,  *)
(* an odd function of its argument where the function is, and asin and     *)
(* atan the inverses of the model's own sin and tan.                       *)
(***************************************************************************)
\* 2^20 * sin(k degrees), rounded, for k = 0 .. 90
SinTable ==
    <<
             0,   18300,   36595,   54878,   73145,   91389,  109606,  127789,  145934,  164033,
        182083,  200078,  218011,  235878,  253673,  271391,  289027,  306574,  324028,  341383,
        358634,  375776,  392803,  409711,  426494,  443147,  459665,  476044,  492277,  508360,
        524288,  540057,  555661,  571095,  586356,  601438,  616338,  631049,  645568,  659890,
        674012,  687928,  701634,  715127,  728402,  741455,  754282,  766880,  779244,  791370,
        803256,  814897,  826289,  837430,  848316,  858943,  869309,  879410,  889243,  898805,
        908093,  917105,  925838,  934288,  942454,  950333,  957922,  965219,  972223,  978930,
        985339,  991448,  997255, 1002758, 1007956, 1012847, 1017429, 1021701, 1025662, 1029311,
       1032646, 1035666, 1038371, 1040760, 1042832, 1044586, 1046022, 1047139, 1047937, 1048416,
       1048576
    >>

Scale == FInt(2^20)

\* a Number of magnitude 2^54: what tan returns next to its poles
Huge == FMul(FInt(2^27), FInt(2^27))

\* 2^20 * sin(k degrees), k any natural number
TableSine(k) ==
    LET r == k % 360
    IN  IF r <= 90 THEN SinTable[r + 1]
        ELSE IF r <= 180 THEN SinTable[181 - r]
        ELSE IF r <= 270 THEN -SinTable[r - 179]
        ELSE -SinTable[361 - r]

\* 2^20 * cos(k degrees)
CosDeg(k) == SinDeg(k + 90)

\* the integer a Number with 0 <= a < 2^31 and no fraction is
FToInt(a) == IF a.m = <<>> THEN 0 ELSE NToInt(NShr(a.m, -a.e))

FAbs(a) == IF a.nan THEN a ELSE [a EXCEPT !.neg = FALSE]

\* a with the sign of b
FWithSign(a, b) == IF b.neg THEN FNeg(a) ELSE a

\* the sine of deg degrees, 0 <= deg
SineOfDegrees(deg) ==
    LET turns == FFloor(FDiv(deg, FInt(360)))
        q     == FSub(deg, FMul(FInt(360), turns))
        k     == FToInt(FFloor(q))
        frac  == FSub(q, FInt(k))
        rise  == FMul(frac, FInt(SinDeg(k + 1) - SinDeg(k)))
    IN  InOrder(<<deg, turns, q, k, frac, rise,
                  FDiv(FAdd(FInt(SinDeg(k)), rise), Scale)>>)

RADIANS_TO_DEGREES == FDec(572957795, 1308232, 14)

DEGREES_TO_RADIANS == FDec(1745329251, 9943295, 18)

Sine(x) ==
    LET degrees == FMul(FAbs(x), RADIANS_TO_DEGREES)
        sine    == SineOfDegrees(degrees)
    IN  IF x.nan THEN NaN
        ELSE InOrder(<<degrees, sine, FWithSign(sine, x)>>)

Cosine(x) ==
    LET degrees == FMul(FAbs(x), RADIANS_TO_DEGREES)
    IN  IF x.nan THEN NaN
        ELSE InOrder(<<degrees, SineOfDegrees(FAdd(degrees, FInt(90)))>>)

Tangent(x) ==
    LET s == MathSin(x)
        c == MathCos(x)
    IN  IF x.nan THEN NaN
        ELSE InOrder(<<s, c, IF c.m = <<>> THEN Huge ELSE FDiv(s, c)>>)

\* the tangent of k degrees is at most a
TangentBelow(a, k) == FLe(FInt(SinDeg(k)), FMul(a, FInt(CosDeg(k))))

\* the sine of k degrees, scaled, is at most a
SineBelow(a, k) == FLe(FInt(SinDeg(k)), a)

\* the largest k in lo .. hi - 1 whose tangent (or else sine) is at most a,
\* given that of lo is
RECURSIVE LastBelow(_, _, _, _)
LastBelow(tangent, a, lo, hi) ==
    IF hi - lo <= 1 THEN lo
    ELSE LET mid == (lo + hi) \div 2
         IN  IF (IF tangent THEN TangentBelow(a, mid) ELSE SineBelow(a, mid))
             THEN LastBelow(tangent, a, mid, hi)
             ELSE LastBelow(tangent, a, lo, mid)

\* the angle in degrees, in [0, 90], whose tangent is a >= 0: k + t with
\* a = (SinDeg(k) + t * dS) / (CosDeg(k) + t * dC)
ArcTanDegrees(a) ==
    LET k   == LastBelow(TRUE, a, 0, 90)
        dS  == FInt(SinDeg(k + 1) - SinDeg(k))
        dC  == FInt(CosDeg(k + 1) - CosDeg(k))
        num == FSub(FMul(a, FInt(CosDeg(k))), FInt(SinDeg(k)))
        den == FSub(dS, FMul(a, dC))
        t   == FDiv(num, den)
    IN  InOrder(<<a, k, num, den, t, FAdd(FInt(k), t)>>)

ArcTangent(x) ==
    LET degrees == ArcTanDegrees(FAbs(x))
    IN  IF x.nan THEN NaN
        ELSE InOrder(<<degrees, FWithSign(FMul(degrees, DEGREES_TO_RADIANS), x)>>)

\* the angle in degrees, in [0, 90], whose sine is a, 0 <= a <= 1
ArcSinDegrees(a) ==
    LET scaled == FMul(a, Scale)
        k == LastBelow(FALSE, scaled, 0, 90)
        t == FDiv(FSub(scaled, FInt(SinDeg(k))), FInt(SinDeg(k + 1) - SinDeg(k)))
    IN  InOrder(<<scaled, k, t, FAdd(FInt(k), t)>>)

ArcSine(x) ==
    LET degrees == ArcSinDegrees(FAbs(x))
    IN  IF x.nan \/ FLt(FInt(1), FAbs(x)) THEN NaN
        ELSE InOrder(<<degrees, FWithSign(FMul(degrees, DEGREES_TO_RADIANS), x)>>)

(***************************************************************************)
(* The decimal literals of the source, as the Numbers they denote.         *)
(***************************************************************************)
K365_25 == FDec(0, 36525, 2)

K30_6001 == FDec(0, 306001, 4)

K1524_5 == FDec(0, 15245, 1)

(***************************************************************************)
(* normalizeAngle: 360 * (angle / 360 - Math.floor(angle / 360))           *)
(***************************************************************************)
normalizeAngle(angle) ==
    IF IsNullish(angle) THEN Throw("normalizeAngle", "missingAngle")
    ELSE LET turns == FDiv(angle, FInt(360))
             whole == FFloor(FDiv(angle, FInt(360)))
             part  == FSub(turns, whole)
         IN  InOrder(<<turns, whole, part, Return(FMul(FInt(360), part))>>)

(***************************************************************************)
(* computeJulianDate                                                       *)
(***************************************************************************)
\* the fraction with the division by 24 applied to the seconds alone
dayFractionUnparenthesised(hour, minute, second) ==
    LET hours == FAdd(hour, FDiv(minute, FInt(60)))
        rest  == FDiv(FDiv(second, FInt(3600)), FInt(24))
    IN  InOrder(<<hours, rest, FAdd(hours, rest)>>)

\* (hour + minute / 60 + second / 3600) / 24
dayFraction(hour, minute, second) ==
    LET hours == FAdd(hour, FDiv(minute, FInt(60)))
        sum   == FAdd(hours, FDiv(second, FInt(3600)))
    IN  InOrder(<<hours, sum, FDiv(sum, FInt(24))>>)

\* JD0h without the move of January and February to the year before
JD0hWithoutShift(year, month, day) ==
    LET A == FFloor(FDiv(year, FInt(100)))
        B == FAdd(FSub(FInt(2), A), FFloor(FDiv(A, FInt(4))))
        yearDays  == FFloor(FMul(K365_25, FAdd(year, FInt(4716))))
        monthDays == FFloor(FMul(K30_6001, FAdd(month, FInt(1))))
        days      == FAdd(FAdd(yearDays, monthDays), day)
    IN  InOrder(<<A, B, yearDays, monthDays, days,
                  FSub(FAdd(days, B), K1524_5)>>)

\* the Julian date at 0h of the day: month is getUTCMonth() + 1
JD0h(year0, month0, day) ==
    LET early == FLe(month0, FInt(2))
        year  == IF early THEN FSub(year0, FInt(1)) ELSE year0
        month == IF early THEN FAdd(month0, FInt(12)) ELSE month0
        A     == FFloor(FDiv(year, FInt(100)))
        B     == FAdd(FSub(FInt(2), A), FFloor(FDiv(A, FInt(4))))
        yearDays  == FFloor(FMul(K365_25, FAdd(year, FInt(4716))))
        monthDays == FFloor(FMul(K30_6001, FAdd(month, FInt(1))))
        days      == FAdd(FAdd(yearDays, monthDays), day)
    IN  InOrder(<<year, month, A, B, yearDays, monthDays, days,
                  FSub(FAdd(days, B), K1524_5)>>)

computeJulianDate(date) ==
    IF date.type # "Date" THEN Throw("computeJulianDate", "missingDate")
    ELSE LET year      == getUTCFullYear(date)
             month     == FAdd(getUTCMonth(date), FInt(1))
             day       == getUTCDate(date)
             fraction  == dayFraction(getUTCHours(date), getUTCMinutes(date),
                                      getUTCSeconds(date))
             atZeroHours == JD0h(year, month, day)
         IN  InOrder(<<year, month, day, fraction, atZeroHours,
                       Return(FAdd(atZeroHours, fraction))>>)

(***************************************************************************)
(* computeSunCelestialLocation                                             *)
(***************************************************************************)
K280_460 == FDec(0, 280460, 3)

K0_9856474 == FDec(0, 9856474, 7)

K357_528 == FDec(0, 357528, 3)

K0_9856003 == FDec(0, 9856003, 7)

K1_915 == FDec(0, 1915, 3)

K0_02 == FDec(0, 2, 2)

K23_439 == FDec(0, 23439, 3)

K0_0000004 == FDec(0, 4, 7)

\* julianDate - 2451545
numDaysSince2000(julianDate) == FSub(julianDate, FInt(2451545))

\* this.normalizeAngle(280.460 + 0.9856474 * numDays)
meanLongitude(numDays) ==
    Call("normalizeAngle", <<FAdd(K280_460, FMul(K0_9856474, numDays))>>).value

\* this.normalizeAngle(357.528 + 0.9856003 * numDays) * Angle.DEGREES_TO_RADIANS
meanAnomaly(numDays) ==
    FMul(Call("normalizeAngle", <<FAdd(K357_528, FMul(K0_9856003, numDays))>>).value,
         DEGREES_TO_RADIANS)

\* meanLongitude + 1.915 * Math.sin(meanAnomaly) + 0.02 * Math.sin(2 * meanAnomaly)
eclipticLongitude(meanLongitude_, meanAnomaly_) ==
    LET first  == FMul(K1_915, MathSin(meanAnomaly_))
        sum    == FAdd(meanLongitude_, first)
        second == FMul(K0_02, MathSin(FMul(FInt(2), meanAnomaly_)))
    IN  InOrder(<<first, sum, second, FAdd(sum, second)>>)

\* (23.439 - 0.0000004 * numDays) * Angle.DEGREES_TO_RADIANS
obliquityOfTheEcliptic(numDays) ==
    FMul(FSub(K23_439, FMul(K0_0000004, numDays)), DEGREES_TO_RADIANS)

\* the declination with the sine of the obliquity left out
declinationWithoutObliquity(obliquity, eclipticLongitudeRad) ==
    FMul(MathAsin(MathSin(eclipticLongitudeRad)), RADIANS_TO_DEGREES)

\* Math.asin(Math.sin(obliquity) * Math.sin(eclipticLongitudeRad)) * RADIANS_TO_DEGREES
declination(obliquity, eclipticLongitudeRad) ==
    LET sinObliquity == MathSin(obliquity)
        sinLongitude == MathSin(eclipticLongitudeRad)
        arcsine      == MathAsin(FMul(sinObliquity, sinLongitude))
    IN  InOrder(<<sinObliquity, sinLongitude, arcsine,
                  FMul(arcsine, RADIANS_TO_DEGREES)>>)

\* Math.atan(Math.cos(obliquity) * Math.tan(eclipticLongitudeRad)) * RADIANS_TO_DEGREES
atanRightAscension(obliquity, eclipticLongitudeRad) ==
    LET cosObliquity == MathCos(obliquity)
        tanLongitude == MathTan(eclipticLongitudeRad)
        arctangent   == MathAtan(FMul(cosObliquity, tanLongitude))
    IN  InOrder(<<cosObliquity, tanLongitude, arctangent,
                  FMul(arctangent, RADIANS_TO_DEGREES)>>)

\* the test that leaves every right ascension as the arctangent gave it
neverCompensateAtan(longitude) == FALSE

\* eclipticLongitude >= 90 && eclipticLongitude < 270
compensateAtan(longitude) == FGe(longitude, FInt(90)) /\ FLt(longitude, FInt(270))

\* rightAscension += 180 under the test, then this.normalizeAngle(rightAscension)
compensatedRightAscension(atanResult, longitude) ==
    LET compensated == IF compensateAtan(longitude)
                       THEN FAdd(atanResult, FInt(180))
                       ELSE atanResult
    IN  Call("normalizeAngle", <<compensated>>).value

\* the local variables of computeSunCelestialLocation, each computed from
\* the ones before it, in the order the code assigns them
sunLocals(julianDate) ==
    LET numDays              == numDaysSince2000(julianDate)
        meanLongitude_       == meanLongitude(numDays)
        meanAnomaly_         == meanAnomaly(numDays)
        eclipticLongitude_   == eclipticLongitude(meanLongitude_, meanAnomaly_)
        eclipticLongitudeRad == FMul(eclipticLongitude_, DEGREES_TO_RADIANS)
        obliquity            == obliquityOfTheEcliptic(numDays)
        declination_         == declination(obliquity, eclipticLongitudeRad)
        atanResult           == atanRightAscension(obliquity, eclipticLongitudeRad)
        rightAscension       == compensatedRightAscension(atanResult,
                                                          eclipticLongitude_)
    IN  InOrder(<<numDays, meanLongitude_, meanAnomaly_, eclipticLongitude_,
                  eclipticLongitudeRad, obliquity, declination_, atanResult,
                  rightAscension,
                  [numDays                |-> numDays,
                   meanLongitude          |-> meanLongitude_,
                   meanAnomaly            |-> meanAnomaly_,
                   eclipticLongitude      |-> eclipticLongitude_,
                   eclipticLongitudeRad   |-> eclipticLongitudeRad,
                   obliquityOfTheEcliptic |-> obliquity,
                   declination            |-> declination_,
                   atanResult             |-> atanResult,
                   rightAscension         |-> rightAscension]>>)

CelestialLocation(d, ra) ==
    [type |-> "object", declination |-> d, rightAscension |-> ra]

computeSunCelestialLocation(julianDate) ==
    IF IsNullish(julianDate)
    THEN Throw("computeSunCelestialLocation", "missingJulianDate")
    ELSE LET locals == sunLocals(julianDate)
         IN  Return(CelestialLocation(locals.declination, locals.rightAscension))

(***************************************************************************)
(* celestialToGeographic                                                   *)
(***************************************************************************)
K280_46061837 == FDec(2804, 6061837, 8)

K360_98564736629 == FDec(3609856, 4736629, 11)

\* Angle.normalizedDegreesLongitude: the angle in (-180, 180] a whole number
\* of turns away from degrees; an angle in that range is returned as it is
normalizedDegreesLongitude(degrees) ==
    LET turns == FFloor(FDiv(FSub(FInt(180), degrees), FInt(360)))
        angle == FAdd(degrees, FMul(FInt(360), turns))
    IN  IF FLt(FInt(-180), degrees) /\ FLe(degrees, FInt(180)) THEN degrees
        ELSE InOrder(<<turns, angle,
                       IF FLe(angle, FInt(-180)) THEN FAdd(angle, FInt(360))
                       ELSE IF FLt(FInt(180), angle) THEN FSub(angle, FInt(360))
                       ELSE angle>>)

\* this.normalizeAngle(280.46061837 + 360.98564736629 * numDays)
GMST(numDays) ==
    Call("normalizeAngle", <<FAdd(K280_46061837, FMul(K360_98564736629, numDays))>>).value

\* this.normalizeAngle(GMST - celestialLocation.rightAscension)
GHA(gmst, celestialLocation) ==
    Call("normalizeAngle", <<FSub(gmst, celestialLocation.rightAscension)>>).value

GeographicLocation(lat, lon) ==
    [type |-> "object", latitude |-> lat, longitude |-> lon]

\* celestialToGeographic returning -GHA as the longitude
celestialToGeographicUnwrapped(celestialLocation, julianDate) ==
    IF IsFalsy(celestialLocation)
    THEN Throw("celestialToGeographic", "missingCelestialLocation")
    ELSE IF IsNullish(julianDate)
    THEN Throw("celestialToGeographic", "missingJulianDate")
    ELSE LET numDays   == numDaysSince2000(julianDate)
             gmst      == GMST(numDays)
             gha       == GHA(gmst, celestialLocation)
         IN  InOrder(<<numDays, gmst, gha,
                       Return(GeographicLocation(celestialLocation.declination,
                                                 FNeg(gha)))>>)

\* celestialToGeographic without the check of the Julian date: null counts
\* as 0 and undefined as NaN in the subtraction
celestialToGeographicWithoutDateCheck(celestialLocation, julianDate) ==
    IF IsFalsy(celestialLocation)
    THEN Throw("celestialToGeographic", "missingCelestialLocation")
    ELSE LET date      == IF julianDate.type = "null" THEN Zero
                          ELSE IF julianDate.type = "undefined" THEN NaN
                          ELSE julianDate
             gha       == GHA(GMST(numDaysSince2000(date)), celestialLocation)
             longitude == Call("normalizedDegreesLongitude", <<FNeg(gha)>>)
         IN  InOrder(<<date, gha, longitude,
                       Return(GeographicLocation(celestialLocation.declination,
                                                 longitude))>>)

celestialToGeographic(celestialLocation, julianDate) ==
    IF IsFalsy(celestialLocation)
    THEN Throw("celestialToGeographic", "missingCelestialLocation")
    ELSE IF IsNullish(julianDate)
    THEN Throw("celestialToGeographic", "missingJulianDate")
    ELSE LET numDays   == numDaysSince2000(julianDate)
             gmst      == GMST(numDays)
             gha       == GHA(gmst, celestialLocation)
             longitude == Call("normalizedDegreesLongitude", <<FNeg(gha)>>)
         IN  InOrder(<<numDays, gmst, gha, longitude,
                       Return(GeographicLocation(celestialLocation.declination,
                                                 longitude))>>)

(***************************************************************************)
(* computeSunGeographicLocation.  The calls it makes cannot throw: the     *)
(* date is a Date, the Julian date a Number and the location an object.    *)
(***************************************************************************)
\* the location with the sidereal time taken at 0h of the day
computeSunGeographicLocationAt0h(date) ==
    IF date.type # "Date"
    THEN Throw("computeSunGeographicLocation", "missingDate")
    ELSE LET julianDate == Call("computeJulianDate", <<date>>).value
             celestialLocation == Call("computeSunCelestialLocation", <<julianDate>>).value
             atZeroHours == JD0h(getUTCFullYear(date),
                                 FAdd(getUTCMonth(date), FInt(1)),
                                 getUTCDate(date))
         IN  InOrder(<<julianDate, celestialLocation, atZeroHours,
                       Call("celestialToGeographic", <<celestialLocation, atZeroHours>>)>>)

\* computeSunGeographicLocation refusing an invalid Date
computeSunGeographicLocationOfValid(date) ==
    IF date.type # "Date" \/ ~date.valid
    THEN Throw("computeSunGeographicLocation", "missingDate")
    ELSE LET julianDate == Call("computeJulianDate", <<date>>).value
             celestialLocation == Call("computeSunCelestialLocation", <<julianDate>>).value
         IN  InOrder(<<julianDate, celestialLocation,
                       Call("celestialToGeographic", <<celestialLocation, julianDate>>)>>)

computeSunGeographicLocation(date) ==
    IF date.type # "Date"
    THEN Throw("computeSunGeographicLocation", "missingDate")
    ELSE LET julianDate == Call("computeJulianDate", <<date>>).value
             celestialLocation == Call("computeSunCelestialLocation", <<julianDate>>).value
         IN  InOrder(<<julianDate, celestialLocation,
                       Call("celestialToGeographic", <<celestialLocation, julianDate>>)>>)

(***************************************************************************)
(* Arguments a client computes                                             *)
(***************************************************************************)
\* the Number n / 2^k
ScaledInteger(n, k) ==
    LET x == FInt(n)
    IN  IF n = 0 THEN x ELSE [x EXCEPT !.e = @ - k]

\* the Julian date d days and q quarters of a day after J2000.0
JulianDateAfter(d, q) == FAdd(FInt(2451545 + d), FDiv(FInt(q), FInt(4)))

\* the location with the right ascension that puts the hour angle at about
\* h, given the longitude the conversion returned for it
Moved(location, longitude, h) ==
    [location EXCEPT
        !.rightAscension = FSub(@, FAdd(longitude, FInt(h)))]

(***************************************************************************)
(* Call: the functions of the module take their arguments as the language  *)
(* passes them, a missing one as undefined.                                *)
(***************************************************************************)
Call(f, a) ==
    CASE f = "round"             -> RoundNearestEven(a[1], a[2], a[3], a[4])
      [] f = "integer"           -> IntegerValue(a[1])
      [] f = "decimal"           -> DecimalValue(a[1], a[2], a[3])
      [] f = "+"                 -> Sum(a[1], a[2])
      [] f = "*"                 -> Product(a[1], a[2])
      [] f = "/"                 -> Quotient(a[1], a[2])
      [] f = "Math.floor"        -> Floor(a[1])
      [] f = "Math.sin"          -> Sine(a[1])
      [] f = "Math.cos"          -> Cosine(a[1])
      [] f = "Math.tan"          -> Tangent(a[1])
      [] f = "Math.asin"         -> ArcSine(a[1])
      [] f = "Math.atan"         -> ArcTangent(a[1])
      [] f = "sine table"        -> TableSine(a[1])
      [] f = "normalizedDegreesLongitude" -> normalizedDegreesLongitude(a[1])
      [] f = "normalizeAngle"    -> normalizeAngle(a[1])
      [] f = "computeJulianDate" -> computeJulianDate(a[1])
      [] f = "computeSunCelestialLocation" -> computeSunCelestialLocation(a[1])
      [] f = "celestialToGeographic" -> celestialToGeographic(a[1], a[2])
      [] f = "computeSunGeographicLocation" -> computeSunGeographicLocation(a[1])
      [] f = "ScaledInteger"     -> ScaledInteger(a[1], a[2])
      [] f = "JulianDateAfter"   -> JulianDateAfter(a[1], a[2])
      [] f = "Moved"             -> Moved(a[1], a[2], a[3])

(***************************************************************************)
(* The calendar of Date (proleptic Gregorian, UTC), for a client whose     *)
(* clock advances between calls.                                           *)
(***************************************************************************)
IsLeapYear(y) == y % 4 = 0 /\ (y % 100 # 0 \/ y % 400 = 0)

DaysInMonth(y, mo) ==
    IF mo = 1 THEN (IF IsLeapYear(y) THEN 29 ELSE 28)
    ELSE IF mo \in {3, 5, 8, 10} THEN 30 ELSE 31

\* the same time of day on the next calendar day
NextDay(d) ==
    IF d.date < DaysInMonth(d.year, d.month) THEN [d EXCEPT !.date = d.date + 1]
    ELSE IF d.month < 11 THEN [d EXCEPT !.date = 1, !.month = d.month + 1]
    ELSE [d EXCEPT !.date = 1, !.month = 0, !.year = d.year + 1]

\* n seconds later, 0 <= n <= 86400
AddSeconds(d, n) ==
    LET tod  == d.hours * 3600 + d.minutes * 60 + d.seconds + n
        day  == IF tod >= 86400 THEN NextDay(d) ELSE d
        t    == tod % 86400
    IN  [day EXCEPT !.hours = t \div 3600, !.minutes = (t % 3600) \div 60,
                    !.seconds = t % 60]

\* n milliseconds later within the same second
AddMillis(d, n) == [d EXCEPT !.ms = d.ms + n]

DateFields(d) == <<d.year, d.month, d.date, d.hours, d.minutes, d.seconds, d.ms>>

RECURSIVE SeqLess(_, _)
SeqLess(a, b) ==
    a # <<>> /\ (Head(a) < Head(b) \/ (Head(a) = Head(b) /\ SeqLess(Tail(a), Tail(b))))

\* t1 < t2 as instants
DateBefore(t1, t2) == SeqLess(DateFields(t1), DateFields(t2))

(***************************************************************************)
(* A client that reads the clock and calls computeJulianDate, again and    *)
(* again as the clock advances.                                            *)
(***************************************************************************)
MaxTicks == 2

MsStep == 500

NoCall == [kind |-> "none"]

\* year, month (0..11), day: month and year ends, leap days, century years,
\* years before 1, the days on which the Julian date passes a power of two,
\* and the days around Julian date 0
StartDays ==
    { <<2000, 0, 1>>, <<1999, 11, 31>>, <<2000, 1, 28>>, <<1900, 1, 28>>,
      <<2100, 1, 28>>, <<2023, 1, 28>>, <<2024, 1, 29>>, <<2023, 5, 30>>,
      <<2001, 0, 31>>, <<1970, 0, 1>>, <<1029, 8, 15>>, <<6771, 6, 7>>,
      <<0, 1, 29>>, <<-1, 11, 31>>, <<-1842, 9, 20>>, <<-4712, 10, 23>>,
      <<-4712, 10, 24>>, <<-4800, 1, 28>> }

\* hour, minute, second
StartTimes == { <<0, 0, 0>>, <<0, 0, 2>>, <<11, 59, 59>>, <<23, 59, 59>> }

InitJulian ==
    /\ fn = "none"
    /\ args \in { <<DateOf(d[1], d[2], d[3], t[1], t[2], t[3], 0)>> :
                     d \in StartDays, t \in StartTimes }
    /\ ret = NoCall
    /\ prevArgs = <<>>
    /\ prevRet = NoCall
    /\ ticks = 0

\* the first call, with the clock's reading
JulianFirst ==
    /\ fn = "none"
    /\ fn' = "computeJulianDate"
    /\ ret' = Call(fn', args)
    /\ UNCHANGED <<args, prevArgs, prevRet, ticks>>

\* a later call, the clock now reading date
JulianAfter(date) ==
    /\ fn = "computeJulianDate"
    /\ ticks < MaxTicks
    /\ fn' = "computeJulianDate"
    /\ args' = <<date>>
    /\ ret' = Call(fn', <<date>>)
    /\ prevArgs' = args
    /\ prevRet' = ret
    /\ ticks' = ticks + 1

AfterMillis ==
    /\ args[1].ms + MsStep < 1000
    /\ JulianAfter(AddMillis(args[1], MsStep))

AfterSecond == JulianAfter(AddSeconds(args[1], 1))

AfterHalfDay == JulianAfter(AddSeconds(args[1], 43200))

AfterDay == JulianAfter(NextDay(args[1]))

NextJulian == JulianFirst \/ AfterMillis \/ AfterSecond \/ AfterHalfDay \/ AfterDay

SpecJulian == InitJulian /\ [][NextJulian]_vars

(***************************************************************************)
(* Properties of computeJulianDate                                         *)
(***************************************************************************)
Half == FDec(0, 5, 1)

One == FInt(1)

\* whether x (a sum before rounding) is exactly the Number c
ExactlyEqual(x, c) ==
    IF x.m = <<>> THEN c.m = <<>>
    ELSE /\ c.m # <<>>
         /\ x.neg = c.neg
         /\ IF x.e <= c.e THEN x.m = NShl(c.m, c.e - x.e)
            ELSE NShl(x.m, x.e - c.e) = c.m

\* a - b = c, exactly
DiffIsExactly(a, b, c) == ExactlyEqual(FSumExact(a, FNeg(b)), c)

\* |a - b - c| <= 2^k
DiffIsWithin(a, b, c, k) ==
    LET y == FSumExact(FSumExact(a, FNeg(b)), FNeg(c))
        L == NBitLen(y.m) + y.e
    IN  \/ y.m = <<>>
        \/ L <= k
        \/ L = k + 1 /\ y.m = NShl(<<1>>, NBitLen(y.m) - 1)

TwoCalls == fn = "computeJulianDate" /\ prevArgs # <<>>

\* C1: of two calls, the one with the earlier date-time returns the smaller
\* Julian date, also when the two date-times differ only below the second
C1_StrictlyMonotonic ==
    (TwoCalls /\ DateBefore(prevArgs[1], args[1]))
        => FLt(prevRet.value, ret.value)

IsMidnight(d) == d.hours = 0 /\ d.minutes = 0 /\ d.seconds = 0 /\ d.ms = 0

NoonAfterMidnight ==
    /\ TwoCalls
    /\ IsMidnight(prevArgs[1])
    /\ args[1] = [prevArgs[1] EXCEPT !.hours = 12]

\* C7: the Julian date at 12:00:00 UTC of a day minus the Julian date at
\* 00:00:00 UTC of that day is exactly 0.5
C7_NoonMinusMidnightIsHalf ==
    NoonAfterMidnight => DiffIsExactly(ret.value, prevRet.value, Half)

\* a 29 February (so the year is shifted back and the month advanced by 12)
C7_Witness ==
    NoonAfterMidnight /\ args[1].month = 1 /\ args[1].date = 29

J2000Noon == DateOf(2000, 0, 1, 12, 0, 0, 0)

ConsecutiveDays == TwoCalls /\ args[1] = NextDay(prevArgs[1])

\* C10: the Julian date of 2000-01-01T12:00:00 UTC is 2451545, and the
\* Julian dates of the same time of day on two consecutive calendar days
\* differ by exactly 1
C10_ContinuousDayCount ==
    /\ (fn = "computeJulianDate" /\ args[1] = J2000Noon)
           => ret.value = FInt(2451545)
    /\ ConsecutiveDays => DiffIsExactly(ret.value, prevRet.value, One)

SameBinade(a, b) == a.m # <<>> /\ b.m # <<>> /\ a.neg = b.neg /\ a.e = b.e

\* the exponent of the unit in the last place of a
UlpExponent(a) == IF a.m = <<>> THEN -1074 ELSE a.e

Max(i, j) == IF i > j THEN i ELSE j

\* C10 as amended: 2451545 at J2000.0; exactly 1 between consecutive days
\* whose Julian dates have the same sign and binary exponent, and otherwise
\* 1 to within one unit in the last place of the larger of the two
C10_DayCountWithinRounding ==
    /\ (fn = "computeJulianDate" /\ args[1] = J2000Noon)
           => ret.value = FInt(2451545)
    /\ ConsecutiveDays =>
           /\ SameBinade(prevRet.value, ret.value)
                  => DiffIsExactly(ret.value, prevRet.value, One)
           /\ DiffIsWithin(ret.value, prevRet.value, One,
                           Max(UlpExponent(prevRet.value), UlpExponent(ret.value)))

\* a 28 February of a common century year followed by 1 March
C10_Witness ==
    /\ ConsecutiveDays
    /\ prevArgs[1].year = 1900 /\ prevArgs[1].month = 1 /\ prevArgs[1].date = 28
    /\ args[1].month = 2
    /\ prevArgs[1].seconds # 0

(***************************************************************************)
(* A client that normalizes an angle, and then the result again.           *)
(***************************************************************************)
AngleNumerators ==
    { -720, -361, -360, -359, -181, -180, -1, 0, 1, 90, 179, 180, 181, 270,
      359, 360, 361, 719, 720, 100000 }

AngleShifts == { 0, 1, 60 }

InitAngle ==
    /\ fn = "none"
    /\ args \in { <<Call("ScaledInteger", <<n, k>>)>> :
                     n \in AngleNumerators, k \in AngleShifts }
    /\ ret = NoCall
    /\ prevArgs = <<>>
    /\ prevRet = NoCall
    /\ ticks = 0

AngleFirst ==
    /\ fn = "none"
    /\ fn' = "normalizeAngle"
    /\ ret' = Call(fn', args)
    /\ UNCHANGED <<args, prevArgs, prevRet, ticks>>

\* normalizeAngle of what normalizeAngle returned
AngleAgain ==
    /\ fn = "normalizeAngle"
    /\ ticks < MaxTicks
    /\ fn' = "normalizeAngle"
    /\ args' = <<ret.value>>
    /\ ret' = Call(fn', <<ret.value>>)
    /\ prevArgs' = args
    /\ prevRet' = ret
    /\ ticks' = ticks + 1

NextAngle == AngleFirst \/ AngleAgain

SpecAngle == InitAngle /\ [][NextAngle]_vars

(***************************************************************************)
(* Properties of normalizeAngle                                            *)
(***************************************************************************)
AngleNormalized == fn = "normalizeAngle" /\ ret.kind = "return"

\* C5: normalizeAngle(x) is at least 0 and below 360 for every x, negative
\* x and multiples of 360 included, and normalizeAngle of the result is the
\* result
C5_RangeAndIdempotence ==
    AngleNormalized =>
        /\ FGe(ret.value, Zero)
        /\ FLt(ret.value, FInt(360))
        /\ (prevArgs # <<>> /\ args[1] = prevRet.value)
               => ret.value = prevRet.value

(***************************************************************************)
(* A client that computes the sun's celestial location at a Julian date,   *)
(* converts it to a geographic one, and converts it again with the right   *)
(* ascension moved to put the sun over the meridian or the antimeridian.   *)
(***************************************************************************)
\* days since J2000.0: the day itself, the equinoxes and solstices of 2000,
\* a century before and after, Julian date 0, and dates far away
DayOffsets ==
    { 0, 79, 80, 171, 172, 265, 266, 355, 356,
      -36525, -36353, 36525, 36515,
      -2451545, 30000000, -100000000, -250000000 }

\* quarters of a day after noon
QuarterOffsets == { 0, 2 }

InitSun ==
    /\ fn = "none"
    /\ args \in { <<Call("JulianDateAfter", <<d, q>>)>> :
                     d \in DayOffsets, q \in QuarterOffsets }
    /\ ret = NoCall
    /\ prevArgs = <<>>
    /\ prevRet = NoCall
    /\ ticks = 0

SunCelestial ==
    /\ fn = "none"
    /\ fn' = "computeSunCelestialLocation"
    /\ ret' = Call(fn', args)
    /\ UNCHANGED <<args, prevArgs, prevRet, ticks>>

\* celestialToGeographic of the location just computed, at the same date
SunGeographic ==
    /\ fn = "computeSunCelestialLocation"
    /\ fn' = "celestialToGeographic"
    /\ args' = <<ret.value, args[1]>>
    /\ ret' = Call(fn', <<ret.value, args[1]>>)
    /\ prevArgs' = args
    /\ prevRet' = ret
    /\ UNCHANGED ticks

\* hour angles the client aims at
HourAngles == { 0, 180 }

SunMoved ==
    /\ fn = "celestialToGeographic"
    /\ ticks < MaxTicks
    /\ \E h \in HourAngles :
          /\ args' = <<Call("Moved", <<args[1], ret.value.longitude, h>>),
                       args[2]>>
          /\ ret' = Call(fn, args')
    /\ prevArgs' = args
    /\ prevRet' = ret
    /\ ticks' = ticks + 1
    /\ UNCHANGED fn

NextSun == SunCelestial \/ SunGeographic \/ SunMoved

SpecSun == InitSun /\ [][NextSun]_vars

(***************************************************************************)
(* Properties of computeSunCelestialLocation and celestialToGeographic     *)
(***************************************************************************)
IsNumber(x) == x.type = "number" /\ ~x.nan

SunLocated ==
    fn = "computeSunCelestialLocation" /\ ret.kind = "return" /\ IsNumber(args[1])

\* at most 36525 days, a Julian century, from J2000.0
WithinCentury(julianDate) ==
    FLe(FAbs(numDaysSince2000(julianDate)), FInt(36525))

\* C8: at every Julian date, however far from J2000.0, the declination is
\* within [-23.5, 23.5] degrees
C8_DeclinationBound ==
    SunLocated => FLe(FAbs(ret.value.declination), FDec(0, 235, 1))

\* C8 as amended: at the Julian dates within 36525 days of J2000.0 the
\* declination is within [-23.5, 23.5] degrees
C8_DeclinationBoundNearJ2000 ==
    (SunLocated /\ WithinCentury(args[1]))
        => FLe(FAbs(ret.value.declination), FDec(0, 235, 1))

\* a solstice, where the declination is the obliquity
C8_Witness ==
    /\ SunLocated
    /\ WithinCentury(args[1])
    /\ FLt(FDec(0, 234, 1), FAbs(ret.value.declination))

\* the quadrant, 0 to 3, of an angle in [0, 360)
Quadrant(angle) == FToInt(FFloor(FDiv(angle, FInt(90))))

\* the angle is at least 0.01 degrees from the multiples of 90 around it
AwayFromQuadrantEdges(angle) ==
    LET above == FSub(angle, FMul(FInt(90), FFloor(FDiv(angle, FInt(90)))))
    IN  /\ FLe(FDec(0, 1, 2), above)
        /\ FLe(above, FSub(FInt(90), FDec(0, 1, 2)))

\* the right ascension is in [0, 360) and in the quadrant of the ecliptic
\* longitude modulo 360, and 180 was added exactly when that is the second
\* or the third quadrant
QuadrantFollowed(longitude, rightAscension) ==
    LET normalized == normalizeAngle(longitude).value
    IN  /\ FGe(rightAscension, Zero)
        /\ FLt(rightAscension, FInt(360))
        /\ Quadrant(rightAscension) = Quadrant(normalized)
        /\ compensateAtan(longitude) <=> Quadrant(normalized) \in {1, 2}

GeographicReturned ==
    /\ fn = "celestialToGeographic"
    /\ ret.kind = "return"
    /\ IsNumber(args[1].rightAscension)
    /\ IsNumber(args[2])

\* the Greenwich hour angle celestialToGeographic computes
HourAngle == GHA(GMST(numDaysSince2000(args[2])), args[1])

ApiDays == { <<2000, 0, 1>>, <<2024, 1, 29>>, <<1999, 11, 31>>, <<1970, 0, 1>> }

\* hour, minute, second, millisecond
ApiTimes == { <<12, 0, 0, 0>>, <<0, 0, 0, 0>>, <<6, 30, 15, 250>>, <<23, 59, 59, 999>> }

ApiDates ==
    { DateOf(d[1], d[2], d[3], t[1], t[2], t[3], t[4]) : d \in ApiDays, t \in ApiTimes }

\* a location at the origin of the celestial coordinates
OriginLocation == [type |-> "object", declination |-> Zero, rightAscension |-> Zero]

\* values that are not Dates: nothing, numbers, an object
NotDates == { Null, Undefined, NaN, Zero, OriginLocation }

Invoke(f, a) ==
    /\ fn' = f
    /\ args' = a
    /\ ret' = Call(f, a)
    /\ prevArgs' = args
    /\ prevRet' = ret
    /\ UNCHANGED ticks

InitApi ==
    /\ fn = "none"
    /\ args = <<>>
    /\ ret = NoCall
    /\ prevArgs = <<>>
    /\ prevRet = NoCall
    /\ ticks = 0

CallNormalizeAngle ==
    /\ fn = "none"
    /\ \E angle \in { Null, Undefined, NaN, Zero } :
          Invoke("normalizeAngle", <<angle>>)

CallComputeJulianDate ==
    /\ fn = "none"
    /\ \E date \in ApiDates \cup NotDates \cup { InvalidDate } :
          Invoke("computeJulianDate", <<date>>)

CallComputeSunGeographicLocation ==
    /\ fn = "none"
    /\ \E date \in ApiDates \cup NotDates \cup { InvalidDate } :
          Invoke("computeSunGeographicLocation", <<date>>)

\* with nothing or NaN, or with the Julian date computeJulianDate returned
CallComputeSunCelestialLocation ==
    \E julianDate \in
          IF fn = "none" THEN { Null, Undefined, NaN }
          ELSE IF fn = "computeJulianDate" /\ ret.kind = "return" THEN { ret.value }
          ELSE {} :
       Invoke("computeSunCelestialLocation", <<julianDate>>)

\* with a missing or a present location and Julian date, or with the location
\* computeSunCelestialLocation returned and its Julian date
CallCelestialToGeographic ==
    \E location \in
          IF fn = "none" THEN { Null, Undefined, Zero, NaN, OriginLocation }
          ELSE IF fn = "computeSunCelestialLocation" /\ ret.kind = "return"
          THEN { ret.value, Null }
          ELSE {} :
       \E julianDate \in
             IF fn = "none" THEN { Null, Undefined, Zero, NaN }
             ELSE { args[1], Undefined } :
          Invoke("celestialToGeographic", <<location, julianDate>>)

NextApi ==
    \/ CallNormalizeAngle
    \/ CallComputeJulianDate
    \/ CallComputeSunGeographicLocation
    \/ CallComputeSunCelestialLocation
    \/ CallCelestialToGeographic

SpecApi == InitApi /\ [][NextApi]_vars

(***************************************************************************)
(* Properties of the argument checks and of computeSunGeographicLocation   *)
(***************************************************************************)
\* the reason an ArgumentError of f gives when its i-th argument is missing
MissingReason(f, i) ==
    CASE f = "normalizeAngle"               -> "missingAngle"
      [] f = "computeJulianDate"            -> "missingDate"
      [] f = "computeSunGeographicLocation" -> "missingDate"
      [] f = "computeSunCelestialLocation"  -> "missingJulianDate"
      [] f = "celestialToGeographic" ->
             IF i = 1 THEN "missingCelestialLocation" ELSE "missingJulianDate"

MissingArguments == { i \in 1..Len(args) : IsNullish(args[i]) }

\* C2: a call of any of the five functions with a null or undefined argument
\* throws the ArgumentError of that function, with a reason the function
\* gives for a missing argument, and returns nothing
C2_MissingArgumentThrows ==
    (fn # "none" /\ MissingArguments # {}) =>
        /\ ret.kind = "throw"
        /\ ret.error = "ArgumentError"
        /\ ret.in = fn
        /\ ret.msg \in { MissingReason(fn, i) : i \in 1..Len(args) }

\* celestialToGeographic with a location and without a Julian date
C2_Witness ==
    /\ fn = "celestialToGeographic"
    /\ args[1].type = "object"
    /\ IsNullish(args[2])
    /\ ret.kind = "throw"

TakesDate == fn \in { "computeJulianDate", "computeSunGeographicLocation" }

\* C3: computeJulianDate and computeSunGeographicLocation throw for every
\* argument that is not a well-formed date, an invalid Date included, and
\* return no NaN for it
C3_MalformedDateThrows ==
    (TakesDate /\ ~(args[1].type = "Date" /\ args[1].valid))
        => ret.kind = "throw"

\* C3 as amended: the two throw for every argument that is not a Date; for
\* an invalid Date they throw nothing, computeJulianDate returns NaN and
\* computeSunGeographicLocation a location of NaN latitude and longitude
C3_OnlyNonDatesThrow ==
    TakesDate =>
        /\ args[1].type # "Date" => ret = Throw(fn, "missingDate")
        /\ (args[1].type = "Date" /\ ~args[1].valid) =>
               /\ ret.kind = "return"
               /\ fn = "computeJulianDate" => ret.value = NaN
               /\ fn = "computeSunGeographicLocation" =>
                      ret.value.latitude = NaN /\ ret.value.longitude = NaN

\* computeSunGeographicLocation with an invalid Date
C3_Witness ==
    /\ fn = "computeSunGeographicLocation"
    /\ args[1].type = "Date" /\ ~args[1].valid
    /\ ret.kind = "return"

\* C6: for a valid date, computeSunGeographicLocation returns what
\* celestialToGeographic returns for the location computeSunCelestialLocation
\* computes at the date's Julian date and that same Julian date, its latitude
\* the declination of that location
C6_ComposedOfTheThree ==
    (fn = "computeSunGeographicLocation" /\ args[1].type = "Date" /\ args[1].valid)
        => LET julianDate == Call("computeJulianDate", args).value
               celestial  == Call("computeSunCelestialLocation", <<julianDate>>).value
           IN  /\ ret = Call("celestialToGeographic", <<celestial, julianDate>>)
               /\ ret.value.latitude = celestial.declination

\* a date in the afternoon, where the Julian date is not that of 0h
C6_Witness ==
    /\ fn = "computeSunGeographicLocation"
    /\ args[1].type = "Date" /\ args[1].valid
    /\ args[1].hours = 23
    /\ ret.kind = "return"

====
